---------------------------- MODULE Spec2Model ----------------------------
(***************************************************************************)
(* Model of the two scripts of the repository:                             *)
(*                                                                         *)
(*   .opencode/skill/opencode/scripts/simple_client.py                     *)
(*       the session client: GET /doc, GET /session, POST /session,        *)
(*       POST /session/{id}/message against a local server;                *)
(*   .opencode/skill/intellij-plugin-builder/scripts/init_project.py       *)
(*       the project initializer: makes a directory tree and writes five   *)
(*       files, three of them templated with str.replace.                  *)
(*                                                                         *)
(* Text (file contents, names) is a sequence of lexemes.  The lexemes used *)
(* are uniquely decodable and no placeholder can match across a lexeme     *)
(* boundary, so equality and str.replace on lexeme sequences agree with    *)
(* equality and str.replace on the characters.                             *)
(***************************************************************************)
EXTENDS Integers, Sequences, FiniteSets, TLC

VARIABLES
    prog,        \* which script this run executes: "client" | "init" | "subst"
    \* ---- simple_client.py
    cpc,         \* position in main(): start, list, create, send, done, exited, crashed
    sent,        \* the HTTP requests sent so far, in order
    replies,     \* what requests.get/post did for each request of sent
    alive,       \* what check_server() gave: unset, true, false, raised
    sessions,    \* main's local sessions (JSON value) once list_sessions returned
    session_id,  \* main's local session_id once create_session returned
    response,    \* main's local response once send_message returned
    exit_code,   \* process exit status, -1 while running
    raised,      \* the exception that ended the run, "none" otherwise
    stdout,      \* lines printed
    \* ---- init_project.py
    ipc,         \* position in main(): mk_kotlin, mk_resources, settings, build,
                 \* props, gitignore, plugin, done, failed
    args,        \* parsed command line: project_name, package_name, target_dir
    fs,          \* regular files: path -> content
    dirs,        \* directories: set of paths
    fs0,         \* the files as they were when the script started
    wrote,       \* paths of the files this run opened for writing, in order
    ierr,        \* the exception that ended the initializer, "none" otherwise
    \* ---- templating applied to one asset text (pure-function check)
    tpl          \* [file, content, project_name, package_name, out, applied]

cvars == <<cpc, sent, replies, alive, sessions, session_id, response,
           exit_code, raised, stdout>>
ivars == <<ipc, args, fs, dirs, fs0, wrote, ierr>>
vars  == <<prog, cvars, ivars, tpl>>

-----------------------------------------------------------------------------
(* Bounds of the model *)

\* GET /session answers with at most this many sessions
MaxListed == 2
\* an asset text holds at most this many occurrences of a placeholder
MaxOcc == 2

-----------------------------------------------------------------------------
(* simple_client.py *)

BASE_URL == "http://127.0.0.1:4096"

HTTP_OK == 200

\* status codes a final response can carry (requests follows redirects; a 304
\* or a 3xx without Location is handed back as it is)
Statuses == {200, 204, 304, 404, 500}

\* JSON scalars are tagged: <<"str", s>>, <<"num", digits>>, <<"null", "None">>
SessionIds == {<<"str", "ses_a">>, <<"str", "ses_b">>, <<"num", "7">>, <<"str", "7">>}

NoId == <<"absent", "">>

\* str(x) / f"{x}" of a JSON scalar
PyStr(v) == v[2]

RECURSIVE SeqsUpTo(_, _)
SeqsUpTo(S, n) ==
    IF n = 0 THEN {<<>>}
    ELSE LET shorter == SeqsUpTo(S, n - 1)
         IN  shorter \cup {Append(s, x) : s \in {t \in shorter : Len(t) = n - 1}, x \in S}

\* response bodies: not JSON at all, null, a list of session objects, an
\* object with or without an "id" member
Bodies ==
    {[t |-> "invalid", items |-> <<>>, id |-> NoId],
     [t |-> "null",    items |-> <<>>, id |-> NoId]}
    \cup {[t |-> "list", items |-> l, id |-> NoId] :
            l \in SeqsUpTo({<<"str", "ses_a">>, <<"str", "ses_b">>}, MaxListed)}
    \cup {[t |-> "obj", items |-> <<>>, id |-> i] : i \in SessionIds \cup {NoId}}

\* exceptions requests.get/post raise instead of returning a response
RequestExceptions ==
    {"ConnectionError", "ConnectTimeout", "ProxyError", "SSLError",
     "ReadTimeout", "TooManyRedirects", "ChunkedEncodingError"}

\* isinstance(e, requests.exceptions.ConnectionError)
IsConnectionError(e) ==
    e \in {"ConnectionError", "ConnectTimeout", "ProxyError", "SSLError"}

NoBody == [t |-> "null", items |-> <<>>, id |-> NoId]

\* what GET /doc answers with: a document that is no JSON, or nothing
DocBodies ==
    {[t |-> "invalid", items |-> <<>>, id |-> NoId], NoBody}

\* what one call of requests.get / requests.post can do
Outcomes(bodies) ==
    {[kind |-> "response", status |-> s, body |-> b, exc |-> "none"] :
        s \in Statuses, b \in bodies}
    \cup {[kind |-> "raise", status |-> 0, body |-> NoBody, exc |-> e] :
            e \in RequestExceptions}

Request(m, path, payload) == [method |-> m, url |-> <<BASE_URL>> \o path, json |-> payload]

NoJson == <<"no-json">>

\* the result of a call: a returned value or a propagated exception
Ret(v)   == [ok |-> TRUE,  val |-> v,    exc |-> "none"]
Raise(e) == [ok |-> FALSE, val |-> NoBody, exc |-> e]

\* Response.raise_for_status()
raise_for_status(o) ==
    IF 400 <= o.status /\ o.status < 600 THEN "HTTPError" ELSE "none"

\* Response.json()
json(o) == IF o.body.t = "invalid" THEN Raise("JSONDecodeError") ELSE Ret(o.body)

check_server_catches_nothing(o) ==
    IF o.kind = "raise" THEN "raised"
    ELSE IF o.status = HTTP_OK THEN "true" ELSE "false"

check_server_any_2xx(o) ==
    IF o.kind = "raise"
    THEN IF IsConnectionError(o.exc) THEN "false" ELSE "raised"
    ELSE IF 200 <= o.status /\ o.status < 300 THEN "true" ELSE "false"

\* check_server(): "true", "false", or "raised" when the exception is not caught
check_server(o) ==
    IF o.kind = "raise"
    THEN IF IsConnectionError(o.exc) THEN "false" ELSE "raised"
    ELSE IF o.status = HTTP_OK THEN "true" ELSE "false"

AfterRequest_without_status_check(o) ==
    IF o.kind = "raise" THEN Raise(o.exc) ELSE json(o)

\* the part of list_sessions / create_session / send_message after the request
AfterRequest(o) ==
    IF o.kind = "raise" THEN Raise(o.exc)
    ELSE IF raise_for_status(o) # "none" THEN Raise(raise_for_status(o))
    ELSE json(o)

\* len(sessions) in main
PyLen(v) ==
    IF v.t = "list" THEN Ret(Len(v.items))
    ELSE IF v.t = "obj" THEN Ret(IF v.id = NoId THEN 0 ELSE 1)
    ELSE Raise("TypeError")

\* session["id"] in main
GetId(v) ==
    IF v.t = "obj" THEN IF v.id = NoId THEN Raise("KeyError") ELSE Ret(v.id)
    ELSE Raise("TypeError")

TITLE == "Test Session from Client"
USER_MSG == "Hello, can you tell me what is 2 + 2?"

\* create_session's payload: {} unless title is truthy
CreatePayload(title) == IF title # "" THEN <<<<"title", title>>>> ELSE <<>>

\* send_message's payload
MessagePayload(message) == [parts |-> <<[type |-> "text", text |-> message]>>]

MessagePath(id) == <<"session", PyStr(id), "message">>

Crash(e) ==
    /\ cpc' = "crashed"
    /\ raised' = e
    /\ exit_code' = 1

main_after_check_retries(result) ==
    CASE result = "raised" -> "crashed"
      [] result = "false"  -> "start"
      [] result = "true"   -> "list"

main_after_check_goes_on(result) ==
    CASE result = "raised" -> "crashed"
      [] result = "false"  -> "list"
      [] result = "true"   -> "list"

\* main, lines 43-48: where main is after check_server() gave result
main_after_check(result) ==
    CASE result = "raised" -> "crashed"
      [] result = "false"  -> "exited"
      [] result = "true"   -> "list"

\* main, lines 43-48: the health check and the exit when it fails
CheckServer ==
    /\ prog = "client" /\ cpc = "start"
    /\ \E o \in Outcomes(DocBodies) :
        /\ sent' = Append(sent, Request("GET", <<"doc">>, NoJson))
        /\ replies' = Append(replies, o)
        /\ alive' = check_server(o)
        /\ cpc' = main_after_check(check_server(o))
        /\ CASE check_server(o) = "raised" ->
                    /\ raised' = o.exc
                    /\ exit_code' = 1
                    /\ stdout' = stdout
             [] check_server(o) = "false" ->
                    /\ exit_code' = IF cpc' = "exited" THEN 1 ELSE exit_code
                    /\ raised' = IF cpc' = "exited" THEN "SystemExit" ELSE raised
                    /\ stdout' = stdout \o <<<<"Error: Could not connect", BASE_URL>>,
                                             <<"Make sure to run 'opencode serve'">>>>
             [] OTHER ->
                    /\ stdout' = Append(stdout, <<"Server is running.">>)
                    /\ UNCHANGED <<exit_code, raised>>
    /\ UNCHANGED <<prog, sessions, session_id, response, ivars, tpl>>

\* main, lines 51-52
ListSessions ==
    /\ prog = "client" /\ cpc = "list"
    /\ \E o \in Outcomes(Bodies) :
        LET r == AfterRequest(o)
            n == IF r.ok THEN PyLen(r.val) ELSE Raise(r.exc)
        IN  /\ sent' = Append(sent, Request("GET", <<"session">>, NoJson))
            /\ replies' = Append(replies, o)
            /\ IF ~r.ok
               THEN Crash(r.exc) /\ UNCHANGED <<sessions, stdout>>
               ELSE /\ sessions' = r.val
                    /\ IF ~n.ok
                       THEN Crash(n.exc) /\ stdout' = stdout
                       ELSE /\ cpc' = "create"
                            /\ stdout' = Append(stdout, <<"Found", n.val>>)
                            /\ UNCHANGED <<exit_code, raised>>
    /\ UNCHANGED <<prog, alive, session_id, response, ivars, tpl>>

create_target_first_listed(made, listed) ==
    IF listed.t = "list" /\ Len(listed.items) > 0 THEN Ret(listed.items[1]) ELSE GetId(made)

\* main, line 57: the id the message will go to
create_target(made, listed) == GetId(made)

\* main, lines 55-58
CreateSession ==
    /\ prog = "client" /\ cpc = "create"
    /\ \E o \in Outcomes(Bodies) :
        LET r  == AfterRequest(o)
            id == IF r.ok THEN create_target(r.val, sessions) ELSE Raise(r.exc)
        IN  /\ sent' = Append(sent, Request("POST", <<"session">>, CreatePayload(TITLE)))
            /\ replies' = Append(replies, o)
            /\ IF ~id.ok
               THEN /\ Crash(id.exc)
                    /\ stdout' = Append(stdout, <<"Creating a new session...">>)
                    /\ UNCHANGED session_id
               ELSE /\ session_id' = id.val
                    /\ cpc' = "send"
                    /\ stdout' = stdout \o <<<<"Creating a new session...">>,
                                             <<"Created session:", PyStr(id.val)>>>>
                    /\ UNCHANGED <<exit_code, raised>>
    /\ UNCHANGED <<prog, alive, sessions, response, ivars, tpl>>

\* main, lines 61-69
SendMessage ==
    /\ prog = "client" /\ cpc = "send"
    /\ \E o \in Outcomes(Bodies) :
        LET r == AfterRequest(o)
        IN  /\ sent' = Append(sent, Request("POST", MessagePath(session_id),
                                            MessagePayload(USER_MSG)))
            /\ replies' = Append(replies, o)
            /\ IF ~r.ok
               THEN /\ Crash(r.exc)
                    /\ stdout' = Append(stdout, <<"Sending message to session", PyStr(session_id)>>)
                    /\ UNCHANGED response
               ELSE /\ response' = r.val
                    /\ cpc' = "done"
                    /\ exit_code' = 0
                    /\ stdout' = stdout \o <<<<"Sending message to session", PyStr(session_id)>>,
                                             <<"Response:">>, <<"json.dumps", r.val>>>>
                    /\ UNCHANGED raised
    /\ UNCHANGED <<prog, alive, sessions, session_id, ivars, tpl>>

-----------------------------------------------------------------------------
(* Text and paths (str, os.path) *)

SEP == "/"

RECURSIVE Replace(_, _, _)
\* str.replace(old, new): every non-overlapping occurrence, left to right
Replace(s, old, new) ==
    IF Len(s) < Len(old) THEN s
    ELSE IF SubSeq(s, 1, Len(old)) = old
         THEN new \o Replace(SubSeq(s, Len(old) + 1, Len(s)), old, new)
         ELSE <<Head(s)>> \o Replace(Tail(s), old, new)

RECURSIVE Split(_, _)
\* str.split(sep): the pieces between the separators, empty pieces kept
Split(s, sep) ==
    IF \A i \in 1..Len(s) : s[i] # sep THEN <<s>>
    ELSE LET i == CHOOSE k \in 1..Len(s) : s[k] = sep /\ \A j \in 1..(k - 1) : s[j] # sep
         IN  <<SubSeq(s, 1, i - 1)>> \o Split(SubSeq(s, i + 1, Len(s)), sep)

IsAbs(p) == Len(p) > 0 /\ p[1] = SEP

\* one round of posixpath.join's loop
Join2(path, b) ==
    IF IsAbs(b) THEN b
    ELSE IF Len(path) = 0 \/ path[Len(path)] = SEP THEN path \o b
    ELSE path \o <<SEP>> \o b

RECURSIVE Join(_, _)
\* posixpath.join(a, *ps)
Join(a, ps) == IF ps = <<>> THEN a ELSE Join(Join2(a, Head(ps)), Tail(ps))

DOT == <<".">>
DOTDOT == <<".", ".">>

RECURSIVE NormComps(_, _, _)
\* posixpath.normpath's loop over the components
NormComps(comps, acc, abs) ==
    IF comps = <<>> THEN acc
    ELSE LET c == Head(comps)
             rest == Tail(comps)
         IN  IF c = <<>> \/ c = DOT THEN NormComps(rest, acc, abs)
             ELSE IF c # DOTDOT
                     \/ (~abs /\ acc = <<>>)
                     \/ (acc # <<>> /\ acc[Len(acc)] = DOTDOT)
                  THEN NormComps(rest, Append(acc, c), abs)
                  ELSE IF acc # <<>>
                       THEN NormComps(rest, SubSeq(acc, 1, Len(acc) - 1), abs)
                       ELSE NormComps(rest, acc, abs)

RECURSIVE FromComps(_)
\* SEP.join(comps)
FromComps(comps) ==
    IF comps = <<>> THEN <<>>
    ELSE IF Len(comps) = 1 THEN Head(comps)
    ELSE Head(comps) \o <<SEP>> \o FromComps(Tail(comps))

\* the components of a normalised path
Comps(p) == NormComps(Split(p, SEP), <<>>, IsAbs(p))

\* posixpath.normpath
Normpath(p) ==
    LET body == FromComps(Comps(p))
    IN  IF IsAbs(p) THEN <<SEP>> \o body
        ELSE IF body = <<>> THEN DOT ELSE body

CWD == <<SEP, "work">>

\* posixpath.abspath
Abspath(p) == Normpath(IF IsAbs(p) THEN p ELSE Join(CWD, <<p>>))

\* posixpath.dirname
Dirname(p) ==
    LET slashes == {k \in 1..Len(p) : p[k] = SEP}
        i == IF slashes = {} THEN 0 ELSE CHOOSE k \in slashes : \A j \in slashes : j <= k
        head == SubSeq(p, 1, i)
        keep == {k \in 1..Len(head) : head[k] # SEP}
        last == IF keep = {} THEN Len(head) ELSE CHOOSE k \in keep : \A j \in keep : j <= k
    IN  SubSeq(head, 1, last)

\* the path of depth i on the way to p: the i-th directory makedirs visits
Ancestor(p, i) == <<SEP>> \o FromComps(SubSeq(Comps(p), 1, i))

Depth(p) == Len(Comps(p))

-----------------------------------------------------------------------------
(* init_project.py: templating *)

RootProjectLine(name) == <<"rootProject.name = \"">> \o name \o <<"\"">>
GroupLine(group)      == <<"group = \"">> \o group \o <<"\"">>
IdElement(id)         == <<"<id>">> \o id \o <<"</id>">>
NameElement(name)     == <<"<name>">> \o name \o <<"</name>">>

\* the placeholder strings of lines 37, 44, 59, 60
PH_ROOT  == RootProjectLine(<<"my-intellij-plugin">>)
PH_GROUP == GroupLine(<<"com", ".", "example">>)
PH_ID    == IdElement(<<"com", ".", "example", ".", "plugin-id">>)
PH_NAME  == NameElement(<<"Plugin Display Name">>)

\* line 37
settings_text(content, project_name) ==
    Replace(content, PH_ROOT, RootProjectLine(project_name))

\* line 44
build_text(content, package_name) ==
    Replace(content, PH_GROUP, GroupLine(package_name))

plugin_text_id_only(content, package_name, project_name) ==
    Replace(content, PH_ID, IdElement(package_name))

\* lines 58-60: plugin_id = package_name, then the two replaces in this order
plugin_text(content, package_name, project_name) ==
    Replace(Replace(content, PH_ID, IdElement(package_name)),
            PH_NAME, NameElement(project_name))

-----------------------------------------------------------------------------
(* init_project.py: the file system *)

SETTINGS   == <<"settings.gradle.kts">>
BUILD      == <<"build.gradle.kts">>
PROPERTIES == <<"gradle.properties">>
GITIGNORE  == <<".gitignore">>
PLUGIN_XML == <<"plugin.xml">>
AssetNames == <<SETTINGS, BUILD, PROPERTIES, GITIGNORE, PLUGIN_XML>>

\* os.path.abspath(__file__)
SCRIPT_FILE == <<SEP, "skill", SEP, "scripts", SEP, "init_project.py">>

\* lines 19-21
script_dir == Dirname(Abspath(SCRIPT_FILE))
skill_dir  == Dirname(script_dir)
assets_dir == Join(skill_dir, <<<<"assets">>>>)

\* line 16
target_dir(a) == Abspath(Join(a.target_dir, <<a.project_name>>))

\* line 26
src_main_kotlin(a) ==
    Join(target_dir(a), <<<<"src">>, <<"main">>, <<"kotlin">>>> \o Split(a.package_name, "."))

\* line 27
src_main_resources(a) ==
    Join(target_dir(a), <<<<"src">>, <<"main">>, <<"resources">>, <<"META-INF">>>>)

\* the file the kernel reaches by walking path p
Resolve(p) == Normpath(p)

RECURSIVE MakeDirsFrom(_, _, _, _, _)
MakeDirsFrom(d, fsys, p, limit, i) ==
    IF i > Depth(p) THEN [dirs |-> d, exc |-> "none"]
    ELSE LET a == Ancestor(p, i)
         IN  IF a \in DOMAIN fsys
             THEN [dirs |-> d,
                   exc |-> IF i = Depth(p) THEN "FileExistsError" ELSE "NotADirectoryError"]
             ELSE IF a \in d THEN MakeDirsFrom(d, fsys, p, limit, i + 1)
             ELSE IF i > limit THEN [dirs |-> d, exc |-> "OSError"]
             ELSE MakeDirsFrom(d \cup {a}, fsys, p, limit, i + 1)

\* os.makedirs(p, exist_ok=True); a mkdir deeper than limit meets an OS error
makedirs(d, fsys, p, limit) == MakeDirsFrom(d, fsys, p, limit, 1)

\* open(p, "r") and f.read()
ReadFile(fsys, d, p, fault) ==
    IF Resolve(p) \in d THEN [ok |-> FALSE, val |-> <<>>, exc |-> "IsADirectoryError"]
    ELSE IF Resolve(p) \notin DOMAIN fsys
         THEN [ok |-> FALSE, val |-> <<>>, exc |-> "FileNotFoundError"]
    ELSE IF fault = "read" THEN [ok |-> FALSE, val |-> <<>>, exc |-> "OSError"]
    ELSE [ok |-> TRUE, val |-> fsys[Resolve(p)], exc |-> "none"]

Put(fsys, p, content) ==
    [q \in DOMAIN fsys \cup {p} |-> IF q = p THEN content ELSE fsys[q]]

\* open(p, "w") truncates or creates the file; f.write(content) fills it
WriteFile(fsys, d, p, content, fault) ==
    IF Resolve(p) \in d THEN [fs |-> fsys, exc |-> "IsADirectoryError"]
    ELSE IF Dirname(Resolve(p)) \notin d THEN [fs |-> fsys, exc |-> "FileNotFoundError"]
    ELSE IF fault = "open" THEN [fs |-> fsys, exc |-> "PermissionError"]
    ELSE IF fault = "write" THEN [fs |-> Put(fsys, Resolve(p), <<>>), exc |-> "OSError"]
    ELSE [fs |-> Put(fsys, Resolve(p), content), exc |-> "none"]

\* shutil.copy(src, dst) for a dst that is no directory: copyfile refuses the
\* same file, reads src, then writes dst
CopyFile(fsys, d, src, dst, fault) ==
    IF Resolve(src) \in DOMAIN fsys /\ Resolve(src) = Resolve(dst)
    THEN [fs |-> fsys, exc |-> "SameFileError", val |-> <<>>]
    ELSE LET r == ReadFile(fsys, d, src, fault)
             w == WriteFile(fsys, d, dst, r.val, fault)
         IN  IF ~r.ok THEN [fs |-> fsys, exc |-> r.exc, val |-> <<>>]
             ELSE [fs |-> w.fs, exc |-> w.exc, val |-> r.val]

-----------------------------------------------------------------------------
(* init_project.py: main *)

NoError == [exc |-> "none", step |-> "none"]

next_step_plugin_before_copies(step) ==
    CASE step = "mk_kotlin"    -> "mk_resources"
      [] step = "mk_resources" -> "settings"
      [] step = "settings"     -> "build"
      [] step = "build"        -> "plugin"
      [] step = "plugin"       -> "props"
      [] step = "props"        -> "gitignore"
      [] step = "gitignore"    -> "done"

next_step_skips_gitignore(step) ==
    CASE step = "mk_kotlin"    -> "mk_resources"
      [] step = "mk_resources" -> "settings"
      [] step = "settings"     -> "build"
      [] step = "build"        -> "props"
      [] step = "props"        -> "plugin"
      [] step = "gitignore"    -> "plugin"
      [] step = "plugin"       -> "done"

\* the order of main's statements, lines 29-63
next_step(step) ==
    CASE step = "mk_kotlin"    -> "mk_resources"
      [] step = "mk_resources" -> "settings"
      [] step = "settings"     -> "build"
      [] step = "build"        -> "props"
      [] step = "props"        -> "gitignore"
      [] step = "gitignore"    -> "plugin"
      [] step = "plugin"       -> "done"

Faults == {"none", "read", "open", "write"}

\* an uncaught exception ends main where it is: nothing is undone
Fail(step, e) ==
    /\ ipc' = "failed"
    /\ ierr' = [exc |-> e, step |-> step]

MkdirStep(step, p) ==
    /\ prog = "init" /\ ipc = step
    /\ \E limit \in 0..Depth(p) :
        LET m == makedirs(dirs, fs, p, limit)
        IN  /\ dirs' = m.dirs
            /\ IF m.exc = "none"
               THEN ipc' = next_step(step) /\ ierr' = ierr
               ELSE Fail(step, m.exc)
    /\ UNCHANGED <<prog, cvars, args, fs, fs0, wrote, tpl>>

\* line 29
MkKotlin == MkdirStep("mk_kotlin", src_main_kotlin(args))

\* line 30
MkResources == MkdirStep("mk_resources", src_main_resources(args))

\* the end of a read-substitute-write block: r is what the read gave, text the
\* substituted content
WriteStep(step, r, dst, text, fault) ==
    IF ~r.ok
    THEN Fail(step, r.exc) /\ UNCHANGED <<fs, wrote>>
    ELSE LET w == WriteFile(fs, dirs, dst, text, fault)
         IN  /\ fs' = w.fs
             /\ IF w.exc = "none"
                THEN /\ ipc' = next_step(step)
                     /\ wrote' = Append(wrote, [path |-> Resolve(dst), content |-> text])
                     /\ ierr' = ierr
                ELSE Fail(step, w.exc) /\ wrote' = wrote

\* lines 35-39
Settings ==
    /\ prog = "init" /\ ipc = "settings"
    /\ \E fault \in Faults :
        LET r == ReadFile(fs, dirs, Join(assets_dir, <<SETTINGS>>), fault)
        IN  WriteStep("settings", r, Join(target_dir(args), <<SETTINGS>>),
                      settings_text(r.val, args.project_name), fault)
    /\ UNCHANGED <<prog, cvars, args, dirs, fs0, tpl>>

\* lines 42-46
Build ==
    /\ prog = "init" /\ ipc = "build"
    /\ \E fault \in Faults :
        LET r == ReadFile(fs, dirs, Join(assets_dir, <<BUILD>>), fault)
        IN  WriteStep("build", r, Join(target_dir(args), <<BUILD>>),
                      build_text(r.val, args.package_name), fault)
    /\ UNCHANGED <<prog, cvars, args, dirs, fs0, tpl>>

CopyStep(step, name) ==
    /\ prog = "init" /\ ipc = step
    /\ \E fault \in Faults :
        LET dst == Join(target_dir(args), <<name>>)
            c == CopyFile(fs, dirs, Join(assets_dir, <<name>>), dst, fault)
        IN  /\ fs' = c.fs
            /\ IF c.exc = "none"
               THEN /\ ipc' = next_step(step)
                    /\ wrote' = Append(wrote, [path |-> Resolve(dst), content |-> c.val])
                    /\ ierr' = ierr
               ELSE Fail(step, c.exc) /\ wrote' = wrote
    /\ UNCHANGED <<prog, cvars, args, dirs, fs0, tpl>>

\* line 49
Props == CopyStep("props", PROPERTIES)

\* line 52
Gitignore == CopyStep("gitignore", GITIGNORE)

\* lines 55-63
Plugin ==
    /\ prog = "init" /\ ipc = "plugin"
    /\ \E fault \in Faults :
        LET r == ReadFile(fs, dirs, Join(assets_dir, <<PLUGIN_XML>>), fault)
        IN  WriteStep("plugin", r, Join(src_main_resources(args), <<PLUGIN_XML>>),
                      plugin_text(r.val, args.package_name, args.project_name), fault)
    /\ UNCHANGED <<prog, cvars, args, dirs, fs0, tpl>>

-----------------------------------------------------------------------------
(* Templating applied to one text: settings_text, build_text, plugin_text *)

ApplySettings ==
    /\ prog = "subst" /\ ~tpl.applied /\ tpl.file = SETTINGS
    /\ tpl' = [tpl EXCEPT !.out = settings_text(tpl.content, tpl.project_name),
                          !.applied = TRUE]
    /\ UNCHANGED <<prog, cvars, ivars>>

ApplyBuild ==
    /\ prog = "subst" /\ ~tpl.applied /\ tpl.file = BUILD
    /\ tpl' = [tpl EXCEPT !.out = build_text(tpl.content, tpl.package_name),
                          !.applied = TRUE]
    /\ UNCHANGED <<prog, cvars, ivars>>

ApplyPlugin ==
    /\ prog = "subst" /\ ~tpl.applied /\ tpl.file = PLUGIN_XML
    /\ tpl' = [tpl EXCEPT !.out = plugin_text(tpl.content, tpl.package_name, tpl.project_name),
                          !.applied = TRUE]
    /\ UNCHANGED <<prog, cvars, ivars>>

-----------------------------------------------------------------------------
(* Initial states *)

RECURSIVE Repeat(_, _)
Repeat(s, k) == IF k = 0 THEN <<>> ELSE s \o Repeat(s, k - 1)

NL == <<"\n">>

\* an asset text with ki occurrences of its (first) placeholder and, for
\* plugin.xml, kn occurrences of the <name> placeholder
AssetText(name, ki, kn) ==
    CASE name = SETTINGS   -> <<"// settings">> \o NL \o Repeat(PH_ROOT \o NL, ki)
      [] name = BUILD      -> <<"plugins {}">> \o NL \o Repeat(PH_GROUP \o NL, ki)
                                \o <<"version = \"1.0\"">> \o NL
      [] name = PROPERTIES -> <<"kotlin.stdlib.default.dependency=false">> \o NL
      [] name = GITIGNORE  -> <<"*.iml">> \o NL
      [] name = PLUGIN_XML -> <<"<idea-plugin>">> \o NL \o Repeat(PH_ID \o NL, ki)
                                \o Repeat(PH_NAME \o NL, kn) \o <<"</idea-plugin>">> \o NL

ProjectNames == {<<"MyPlugin">>, <<"assets">>}
PackageNames == {<<"com", ".", "acme">>, <<"demo">>}
\* --target-dir: the default ".", the skill directory, the same spelled with ..
TargetDirs == {DOT, <<SEP, "skill">>, <<SEP, "skill", SEP, "scripts", SEP>> \o DOTDOT}

AssetPath(name) == Join(assets_dir, <<name>>)

\* the assets directory with every asset but `missing`
AssetFiles(missing, k) ==
    LET names == {AssetNames[i] : i \in 1..Len(AssetNames)} \ {missing}
    IN  [p \in {AssetPath(n) : n \in names} \cup {SCRIPT_FILE} |->
            IF p = SCRIPT_FILE THEN <<"import os">>
            ELSE LET n == CHOOSE n \in names : AssetPath(n) = p
                 IN  AssetText(n, k, k)]

InitialDirs ==
    {<<SEP>>, CWD, <<SEP, "skill">>, <<SEP, "skill", SEP, "scripts">>, assets_dir}

IdleClient ==
    /\ cpc = "idle" /\ sent = <<>> /\ replies = <<>> /\ alive = "unset"
    /\ sessions = NoBody /\ session_id = NoId /\ response = NoBody
    /\ exit_code = -1 /\ raised = "none" /\ stdout = <<>>

IdleInitializer ==
    /\ ipc = "idle"
    /\ args = [project_name |-> <<>>, package_name |-> <<>>, target_dir |-> DOT]
    /\ fs = <<>> /\ fs0 = <<>> /\ dirs = {} /\ wrote = <<>> /\ ierr = NoError

NoTpl == [file |-> <<>>, content |-> <<>>, project_name |-> <<>>,
          package_name |-> <<>>, out |-> <<>>, applied |-> FALSE]

InitClient ==
    /\ prog = "client"
    /\ cpc = "start" /\ sent = <<>> /\ replies = <<>> /\ alive = "unset"
    /\ sessions = NoBody /\ session_id = NoId /\ response = NoBody
    /\ exit_code = -1 /\ raised = "none" /\ stdout = <<>>
    /\ IdleInitializer /\ tpl = NoTpl

InitProject ==
    /\ prog = "init"
    /\ ipc = "mk_kotlin"
    /\ args \in [project_name : ProjectNames, package_name : PackageNames,
                 target_dir : TargetDirs]
    /\ \E missing \in {AssetNames[i] : i \in 1..Len(AssetNames)} \cup {<<>>},
          k \in 0..MaxOcc :
        /\ fs = AssetFiles(missing, k)
        /\ fs0 = fs
    /\ dirs = InitialDirs /\ wrote = <<>> /\ ierr = NoError
    /\ IdleClient /\ tpl = NoTpl

\* names the templating is tried on: ordinary ones, the placeholders' own
\* values, and a package name that holds the text of the <name> placeholder
SubstProjectNames == {<<"MyPlugin">>, <<"my-intellij-plugin">>, <<"Plugin Display Name">>}
SubstPackageNames == {<<"com", ".", "acme">>, <<"com", ".", "example">>, PH_NAME}

InitSubst ==
    /\ prog = "subst"
    /\ \E f \in {SETTINGS, BUILD, PLUGIN_XML}, ki \in 0..MaxOcc, kn \in 0..MaxOcc,
          pn \in SubstProjectNames, pk \in SubstPackageNames :
        tpl = [file |-> f, content |-> AssetText(f, ki, kn), project_name |-> pn,
               package_name |-> pk, out |-> <<>>, applied |-> FALSE]
    /\ IdleClient /\ IdleInitializer

Init == InitClient \/ InitProject

Next ==
    \/ CheckServer \/ ListSessions \/ CreateSession \/ SendMessage
    \/ MkKotlin \/ MkResources \/ Settings \/ Build \/ Props \/ Gitignore \/ Plugin

Spec == Init /\ [][Next]_vars

NextSubst == ApplySettings \/ ApplyBuild \/ ApplyPlugin

SpecSubst == InitSubst /\ [][NextSubst]_vars

-----------------------------------------------------------------------------
(* Claims about simple_client.py *)

DocAnswered == Len(replies) >= 1

\* the ways GET /doc fails to reach a server: connection refused or host
\* unreachable, connect timeout, proxy that cannot connect
UnreachableFailures == {"ConnectionError", "ConnectTimeout", "ProxyError"}

\* C1: whenever GET /doc fails to reach a server, check_server returns false
\* to its caller: it neither raises nor returns true.
C1_UnreachableGivesFalse ==
    (DocAnswered /\ replies[1].kind = "raise" /\ replies[1].exc \in UnreachableFailures)
        => alive = "false"

C1_Witness ==
    /\ DocAnswered /\ replies[1].kind = "raise" /\ replies[1].exc = "ConnectionError"
    /\ alive = "false"

IsSuccessStatus(status) == 200 <= status /\ status < 300

\* C2 as claimed: for every response status, check_server's result equals
\* "the status is a success status".
C2_ResultIsSuccessStatus ==
    (DocAnswered /\ replies[1].kind = "response")
        => /\ alive \in {"true", "false"}
           /\ (alive = "true") <=> IsSuccessStatus(replies[1].status)

\* C2 as amended: for every response status, check_server returns true when
\* the status is exactly 200 and false for every other status, the other
\* success statuses included.
C2_ResultIsStatus200 ==
    (DocAnswered /\ replies[1].kind = "response")
        => /\ alive \in {"true", "false"}
           /\ (alive = "true") <=> (replies[1].status = 200)

C2_Witness ==
    /\ DocAnswered /\ replies[1].kind = "response"
    /\ replies[1].status = 204 /\ alive = "false"

IsDoc(r)     == r.method = "GET"  /\ r.url = <<BASE_URL, "doc">>
IsList(r)    == r.method = "GET"  /\ r.url = <<BASE_URL, "session">>
IsCreate(r)  == r.method = "POST" /\ r.url = <<BASE_URL, "session">>
IsMessage(r) == r.method = "POST" /\ Len(r.url) = 4 /\ r.url[1] = BASE_URL
                /\ r.url[2] = "session" /\ r.url[4] = "message"

\* C5: the requests of a run are a prefix of GET /doc, GET /session,
\* POST /session, POST /session/{id}/message: fixed order, each at most once.
C5_FixedOrderNoRepeat ==
    /\ Len(sent) <= 4
    /\ Len(sent) >= 1 => IsDoc(sent[1])
    /\ Len(sent) >= 2 => IsList(sent[2])
    /\ Len(sent) >= 3 => IsCreate(sent[3])
    /\ Len(sent) >= 4 => IsMessage(sent[4])

C5_Witness ==
    /\ Len(sent) = 4 /\ cpc = "crashed"
    /\ replies[4].kind = "response" /\ replies[4].status = 500

RequestFailed(o) == o.kind = "raise" \/ o.status >= 400

\* C6: when GET /session, POST /session or POST /session/{id}/message fails
\* with a network failure or an HTTP error status, the run ends with that
\* error and the failed request is the last one sent.
C6_FailureEndsRun ==
    \A i \in 2..Len(replies) :
        RequestFailed(replies[i])
            => /\ Len(sent) = i
               /\ cpc = "crashed"
               /\ exit_code = 1
               /\ raised = IF replies[i].kind = "raise" THEN replies[i].exc ELSE "HTTPError"

C6_Witness ==
    /\ Len(replies) = 2 /\ replies[2].kind = "response" /\ replies[2].status = 404
    /\ replies[2].body.t = "list" /\ cpc = "crashed"

\* C7: when check_server returns false the run ends with exit status 1 and
\* the single GET /doc is the only request sent.
C7_FalseExitsWithOneRequest ==
    alive = "false"
        => /\ cpc = "exited"
           /\ exit_code = 1
           /\ Len(sent) = 1 /\ IsDoc(sent[1])
           /\ session_id = NoId /\ response = NoBody

C7_Witness ==
    /\ alive = "false" /\ cpc = "exited"
    /\ replies[1].kind = "response" /\ replies[1].status = 500

ListedIds == IF sessions.t = "list" THEN {PyStr(sessions.items[i]) : i \in 1..Len(sessions.items)}
             ELSE {}

\* C8: a posted message goes to the session whose id this run's POST /session
\* returned, not to one GET /session listed; one message is posted, and its
\* body is one part of type text holding the message unchanged.
C8_MessageToCreatedSession ==
    /\ Cardinality({i \in 1..Len(sent) : IsMessage(sent[i])}) <= 1
    /\ \A i \in 1..Len(sent) :
        IsMessage(sent[i])
            => /\ replies[3].kind = "response" /\ replies[3].body.t = "obj"
               /\ sent[i].url = <<BASE_URL, "session", PyStr(replies[3].body.id), "message">>
               /\ (PyStr(replies[3].body.id) \notin ListedIds => sent[i].url[3] \notin ListedIds)
               /\ sent[i].json.parts = <<[type |-> "text", text |-> USER_MSG]>>
               /\ DOMAIN sent[i].json = {"parts"}

C8_Witness ==
    /\ cpc = "done" /\ Len(sent) = 4 /\ IsMessage(sent[4])
    /\ sessions.t = "list" /\ Len(sessions.items) = 2
    /\ replies[3].body.id = <<"num", "7">>
    /\ sent[4].url[3] = "7"

-----------------------------------------------------------------------------
(* Claims about init_project.py *)

\* <target-dir>/<project_name>, written out for each --target-dir of the model
ProjectDir ==
    IF args.target_dir = DOT THEN <<SEP, "work", SEP>> \o args.project_name
    ELSE <<SEP, "skill", SEP>> \o args.project_name

Under(root, rel) == root \o <<SEP>> \o rel

MetaInfDir == Under(ProjectDir, <<"src", SEP, "main", SEP, "resources", SEP, "META-INF">>)

\* the five files in the order main writes them
FiveFiles ==
    <<Under(ProjectDir, SETTINGS), Under(ProjectDir, BUILD), Under(ProjectDir, PROPERTIES),
      Under(ProjectDir, GITIGNORE), Under(MetaInfDir, PLUGIN_XML)>>

PackageSegments == SelectSeq(args.package_name, LAMBDA t : t # ".")

RECURSIVE Chain(_, _)
\* root/s1, root/s1/s2, ...
Chain(root, segs) ==
    IF segs = <<>> THEN {}
    ELSE {Under(root, <<Head(segs)>>)} \cup Chain(Under(root, <<Head(segs)>>), Tail(segs))

LayoutDirs ==
    Chain(ProjectDir, <<"src", "main", "kotlin">> \o PackageSegments)
    \cup Chain(ProjectDir, <<"src", "main", "resources", "META-INF">>)

Range(f) == {f[i] : i \in DOMAIN f}

\* C4: after a successful run the project directory holds the layout: the
\* kotlin directory chain with one directory per package segment, META-INF,
\* and the five files, which are all the files the run wrote.
C4_FixedLayout ==
    ipc = "done"
        => /\ LayoutDirs \subseteq dirs
           /\ Cardinality(LayoutDirs) = 5 + Len(PackageSegments)
           /\ (DOMAIN fs) \ (DOMAIN fs0) = Range(FiveFiles)
           /\ Cardinality(Range(FiveFiles)) = 5
           /\ \A p \in DOMAIN fs0 : fs[p] = fs0[p]
           /\ dirs \ LayoutDirs = InitialDirs \cup {ProjectDir}

C4_Witness ==
    /\ ipc = "done" /\ args.package_name = <<"com", ".", "acme">>
    /\ args.target_dir # DOT
    /\ Under(MetaInfDir, PLUGIN_XML) \in DOMAIN fs

IsPrefix(a, b) == Len(a) <= Len(b) /\ SubSeq(b, 1, Len(a)) = a

\* the project directory does not exist when the script starts
FreshTarget == \A p \in DOMAIN fs0 : ~IsPrefix(ProjectDir, p)

StepIndex(step) ==
    CASE step = "settings" -> 1 [] step = "build" -> 2 [] step = "props" -> 3
      [] step = "gitignore" -> 4 [] step = "plugin" -> 5 [] OTHER -> 0

\* C9: from an empty target directory the outputs appear in the order
\* directories, settings.gradle.kts, build.gradle.kts, gradle.properties,
\* .gitignore, plugin.xml; plugin.xml on disk implies the other four on disk;
\* after a failure at step k the outputs of the steps before k are on disk.
C9_OrderAndNoRollback ==
    FreshTarget
        => /\ Len(wrote) <= 5
           /\ \A i \in 1..Len(wrote) :
                /\ wrote[i].path = FiveFiles[i]
                /\ wrote[i].path \in DOMAIN fs
                /\ fs[wrote[i].path] = wrote[i].content
           /\ (wrote # <<>> => LayoutDirs \subseteq dirs)
           /\ (FiveFiles[5] \in DOMAIN fs => \A i \in 1..4 : FiveFiles[i] \in DOMAIN fs)
           /\ \A i \in 2..5 : FiveFiles[i] \in DOMAIN fs => FiveFiles[i - 1] \in DOMAIN fs
           /\ (ipc = "failed" /\ StepIndex(ierr.step) > 0
                 => Len(wrote) = StepIndex(ierr.step) - 1)
           /\ (ipc = "failed" /\ ierr.step = "mk_resources"
                 => Chain(ProjectDir, <<"src", "main", "kotlin">> \o PackageSegments)
                        \subseteq dirs)

C9_Witness ==
    /\ FreshTarget /\ ipc = "failed" /\ ierr.step = "plugin" /\ ierr.exc = "OSError"
    /\ Len(wrote) = 4 /\ FiveFiles[5] \in DOMAIN fs

\* C10: the content of every file of the assets directory is the same after
\* the run as before it, whatever the project name and --target-dir.
C10_AssetsUnchanged ==
    \A i \in 1..Len(AssetNames) :
        LET p == <<SEP, "skill", SEP, "assets", SEP>> \o AssetNames[i]
        IN  p \in DOMAIN fs0 => (p \in DOMAIN fs /\ fs[p] = fs0[p])

-----------------------------------------------------------------------------
(* Claims about the templating *)

OccursAt(s, old, i) ==
    i + Len(old) - 1 <= Len(s) /\ SubSeq(s, i, i + Len(old) - 1) = old

Positions(s, old) == {i \in 1..Len(s) : OccursAt(s, old, i)}

\* s with the n lexemes from position i replaced by new
Splice(s, i, n, new) == SubSeq(s, 1, i - 1) \o new \o SubSeq(s, i + n, Len(s))

\* out is in with exactly one occurrence of old replaced by new
OneReplaced(in, out, old, new) ==
    \E i \in Positions(in, old) : out = Splice(in, i, Len(old), new)

\* out is in with one occurrence of each of old1, old2 replaced, both
\* occurrences being text of in
TwoReplaced(in, out, old1, new1, old2, new2) ==
    \E i \in Positions(in, old1), j \in Positions(in, old2) :
        \/ /\ i + Len(old1) <= j
           /\ out = Splice(Splice(in, j, Len(old2), new2), i, Len(old1), new1)
        \/ /\ j + Len(old2) <= i
           /\ out = Splice(Splice(in, i, Len(old1), new1), j, Len(old2), new2)

ExactlyOnceEach ==
    CASE tpl.file = SETTINGS ->
            OneReplaced(tpl.content, tpl.out, PH_ROOT, RootProjectLine(tpl.project_name))
      [] tpl.file = BUILD ->
            OneReplaced(tpl.content, tpl.out, PH_GROUP, GroupLine(tpl.package_name))
      [] tpl.file = PLUGIN_XML ->
            TwoReplaced(tpl.content, tpl.out, PH_ID, IdElement(tpl.package_name),
                        PH_NAME, NameElement(tpl.project_name))

\* C3 as claimed: for every project name, package name and asset content,
\* exactly one occurrence of each placeholder is replaced by the supplied
\* value, no inserted text is rewritten, all other text is unchanged.
C3_ExactlyOnceAlways == tpl.applied => ExactlyOnceEach

OneOccurrenceEach ==
    CASE tpl.file = SETTINGS -> Cardinality(Positions(tpl.content, PH_ROOT)) = 1
      [] tpl.file = BUILD -> Cardinality(Positions(tpl.content, PH_GROUP)) = 1
      [] tpl.file = PLUGIN_XML ->
            /\ Cardinality(Positions(tpl.content, PH_ID)) = 1
            /\ Cardinality(Positions(tpl.content, PH_NAME)) = 1
            /\ Positions(tpl.package_name, PH_NAME) = {}

\* C3 as amended: for every project name, every package name that does not
\* contain the <name> placeholder, and every asset content that holds exactly
\* one occurrence of each of its placeholders, exactly one occurrence of each
\* placeholder is replaced by the supplied value, no inserted text is
\* rewritten, all other text is unchanged.
C3_ExactlyOnceWhenOneOccurrence ==
    (tpl.applied /\ OneOccurrenceEach) => ExactlyOnceEach

C3_Witness ==
    /\ tpl.applied /\ OneOccurrenceEach /\ tpl.file = PLUGIN_XML
    /\ tpl.package_name = <<"com", ".", "acme">> /\ tpl.project_name = <<"MyPlugin">>
    /\ tpl.out # tpl.content

=============================================================================
